---- MODULE Spec2Model ----
(***************************************************************************)
(* The dataset-preparation pipeline of scripts/prepare-training-data.py:   *)
(* load_jsonl, balance_dataset, augment_prompts, format_for_training and   *)
(* prepare_dataset, which composes them, shuffles, writes the formatted    *)
(* records, computes the statistics and writes them.                       *)
(*                                                                         *)
(* Text is a sequence of symbols.  In a file the symbols are "\n", " ",    *)
(* "x" (a character no JSON value starts with) and the names of the        *)
(* records of Pool, each standing for the JSON text of that record.  In a  *)
(* prompt the canonical baseline sentence is the two-symbol text b1 b2, so *)
(* that a prompt can be the baseline, hold only a part of it, or hold it   *)
(* inside longer text.                                                     *)
(***************************************************************************)
EXTENDS Integers, Sequences, FiniteSets, TLC

VARIABLES
    file,              \* the text of input_file
    augment,           \* prepare_dataset's augment
    balance,           \* prepare_dataset's balance
    max_per_category,  \* prepare_dataset's max_per_category: None or Some(n)
    pc,                \* the statement prepare_dataset is at
    data,              \* prepare_dataset's local data
    formatted_data,    \* prepare_dataset's local formatted_data
    output_file,       \* <stem>_formatted.jsonl: whether written, and its lines
    stats,             \* prepare_dataset's local stats: <<>> until generated
    stats_file,        \* <stem>_stats.json: whether written, and its document
    result,            \* the returned pair: <<>> until returned
    err,               \* the exception that ended the run, "" if none
    loaded,            \* history: data as load_jsonl returned it
    kept               \* history: the positions of loaded that balancing kept

vars == <<file, augment, balance, max_per_category, pc, data, formatted_data,
          output_file, stats, stats_file, result, err, loaded, kept>>

---------------------------------------------------------------------------
\* Bounds of the model.

MaxRecords == 2     \* lines of an input file of Spec
MaxCap == 2         \* largest max_per_category tried
MaxFileLen == 4     \* symbols of an input file of SpecLoad
MaxPromptLen == 3   \* symbols of a prompt of SpecAugment
MaxBalanced == 3    \* records of a list of SpecBalance

SeqUpTo(S, n) == UNION {[1..k -> S] : k \in 0..n}

Range(s) == {s[i] : i \in 1..Len(s)}

---------------------------------------------------------------------------
\* Values.

Absent == "<absent>"     \* the value of a key the metadata mapping lacks

None == <<>>             \* Python's None for an optional integer
Some(n) == <<n>>

\* bool(max_per_category) at "if max_per_category:"
Truthy(m) == m # None /\ m[1] # 0

BASELINE == <<"b1", "b2">>

alternative_prompts == << <<"alt1">>, <<"alt2">>, <<"alt3">>, <<"alt4">> >>

\* alternative_prompts[:2]
NumAugmentations == 2

Meta(c, a, s, h, p) ==
    [category |-> c, age_range |-> a, sex |-> s, has_annotations |-> h,
     procedure_type |-> p]

Entry(img, prompt, meta) ==
    [image_path |-> img, prompt |-> prompt, response |-> "resp", metadata |-> meta]

\* The records an input file of Spec is made of, by the name their JSON text
\* has in a file.
Pool ==
    [polypA |-> Entry("img1", BASELINE, Meta("polyp", "40-50", "M", TRUE, "colonoscopy")),
     polypB |-> Entry("img1", <<"x">>, Meta("polyp", "60-70", "F", FALSE, Absent)),
     normal |-> Entry("img2", BASELINE, Meta("normal", "40-50", "F", TRUE, "")),
     ulcer  |-> Entry("img3", BASELINE, Meta("ulcer", "40-50", "M", FALSE, "egd")),
     noCategory |-> Entry("img2", <<"x">>, Meta(Absent, "40-50", "M", TRUE, "egd")),
     noAge  |-> Entry("img3", <<"x">>, Meta("polyp", Absent, "M", FALSE, Absent)),
     noSex  |-> Entry("img1", <<"x">>, Meta("normal", "60-70", Absent, FALSE, "egd"))]

---------------------------------------------------------------------------
\* load_jsonl

Whitespace == {" ", "\n"}

RECURSIVE SplitLines(_)
\* "for line in f": each line ends with its "\n"; text after the last "\n",
\* if any, is a last line.
SplitLines(t) ==
    IF t = <<>> THEN <<>>
    ELSE LET nl == {i \in 1..Len(t) : t[i] = "\n"}
         IN  IF nl = {} THEN <<t>>
             ELSE LET n == CHOOSE i \in nl : \A j \in nl : i <= j
                  IN  <<SubSeq(t, 1, n)>> \o SplitLines(SubSeq(t, n + 1, Len(t)))

\* line.strip()
Strip(s) ==
    LET ink == {i \in 1..Len(s) : s[i] \notin Whitespace}
    IN  IF ink = {} THEN <<>>
        ELSE LET lo == CHOOSE i \in ink : \A j \in ink : i <= j
                 hi == CHOOSE i \in ink : \A j \in ink : i >= j
             IN  SubSeq(s, lo, hi)

\* json.loads: one JSON value and nothing else, or JSONDecodeError.
JsonValid(s) == Len(s) = 1 /\ s[1] \in DOMAIN Pool

json_loads(s) == Pool[s[1]]

load_jsonl(f) ==
    LET lines == SplitLines(f)
    IN  IF \A i \in 1..Len(lines) : JsonValid(Strip(lines[i]))
        THEN [err |-> "", data |-> [i \in 1..Len(lines) |-> json_loads(Strip(lines[i]))]]
        ELSE [err |-> "JSONDecodeError", data |-> <<>>]

---------------------------------------------------------------------------
\* balance_dataset, on positions: an outcome is the sequence of positions of
\* data that the returned list holds, in the returned order.

RECURSIVE CategoryOrder(_, _)
\* category_groups' keys, in insertion (first-seen) order, of data[i..].
CategoryOrder(d, i) ==
    IF i > Len(d) THEN <<>>
    ELSE LET rest == CategoryOrder(d, i + 1)
             c == d[i].metadata.category
         IN  <<c>> \o SelectSeq(rest, LAMBDA x : x # c)

RECURSIVE Positions(_, _, _)
\* category_groups[c], as the ascending positions of the entries of category c.
Positions(d, c, i) ==
    IF i > Len(d) THEN <<>>
    ELSE (IF d[i].metadata.category = c THEN <<i>> ELSE <<>>) \o Positions(d, c, i + 1)

\* Mutant of random_sample: sampling with replacement (random.choices).
random_sample_replace(entries, k) == [1..k -> Range(entries)]

\* random.sample(entries, k), 0 <= k <= len(entries): any k distinct entries,
\* in any order.
random_sample(entries, k) ==
    {s \in [1..k -> Range(entries)] : \A i, j \in 1..k : i # j => s[i] # s[j]}

\* Mutant of BalancedGroup: the whole group is kept whatever its size.
BalancedGroup_nocap(entries, cap) == {entries}

\* One category's contribution to balanced_data.
BalancedGroup(entries, cap) ==
    IF Len(entries) > cap THEN random_sample(entries, cap) ELSE {entries}

RECURSIVE BalancedData(_, _, _, _)
\* balanced_data after the loop over the categories cats[i..].
BalancedData(d, cats, cap, i) ==
    IF i > Len(cats) THEN {<<>>}
    ELSE {g \o rest : g \in BalancedGroup(Positions(d, cats[i], 1), cap),
                      rest \in BalancedData(d, cats, cap, i + 1)}

\* The exception balance_dataset raises, "" if none: KeyError from the grouping
\* loop, ValueError from random.sample with a negative sample size (a group is
\* never empty, so its length exceeds any negative cap).
balance_error(d, m) ==
    IF \E i \in 1..Len(d) : d[i].metadata.category = Absent THEN "KeyError"
    ELSE IF Truthy(m) /\ m[1] < 0 /\ d # <<>> THEN "ValueError"
    ELSE ""

balance_dataset(d, m) ==
    IF Truthy(m) THEN BalancedData(d, CategoryOrder(d, 1), m[1], 1)
    ELSE {[i \in 1..Len(d) |-> i]}

---------------------------------------------------------------------------
\* augment_prompts

\* Mutant of Replace: the substitution is made only when s is old itself.
Replace_exact(s, old, new) == IF s = old THEN new ELSE s

RECURSIVE Replace(_, _, _)
\* s.replace(old, new), old not empty: every occurrence of old, found left to
\* right without overlap, becomes new.
Replace(s, old, new) ==
    IF Len(s) < Len(old) THEN s
    ELSE IF SubSeq(s, 1, Len(old)) = old
         THEN new \o Replace(SubSeq(s, Len(old) + 1, Len(s)), old, new)
         ELSE <<Head(s)>> \o Replace(Tail(s), old, new)

\* Mutant of Eligible: "or" for "and".
Eligible_or(entry) ==
    entry.metadata.category # "normal" \/ entry.metadata.has_annotations

\* The condition of "Only augment entries with actual findings".
Eligible(entry) ==
    entry.metadata.category # "normal" /\ entry.metadata.has_annotations

augment_error(entry) ==
    IF entry.metadata.category = Absent THEN "KeyError" ELSE ""

AugEntry(entry, alt_prompt) ==
    [entry EXCEPT !.prompt = Replace(entry.prompt, BASELINE, alt_prompt)]

\* Mutant of augment_prompts: the list starts empty, without the entry itself.
augment_prompts_noorig(entry) ==
    IF Eligible(entry)
    THEN [i \in 1..NumAugmentations |-> AugEntry(entry, alternative_prompts[i])]
    ELSE <<>>

augment_prompts(entry) ==
    <<entry>> \o
    (IF Eligible(entry)
     THEN [i \in 1..NumAugmentations |-> AugEntry(entry, alternative_prompts[i])]
     ELSE <<>>)

RECURSIVE Flatten(_)
Flatten(ss) == IF ss = <<>> THEN <<>> ELSE Head(ss) \o Flatten(Tail(ss))

\* augmented_data after the loop of prepare_dataset.
AugmentAll(d) == Flatten([i \in 1..Len(d) |-> augment_prompts(d[i])])

---------------------------------------------------------------------------
\* format_for_training

format_for_training(entry) ==
    [image_path |-> entry.image_path,
     conversations |-> << [from |-> "human", value |-> entry.prompt],
                          [from |-> "gpt", value |-> entry.response] >>,
     metadata |-> entry.metadata]

---------------------------------------------------------------------------
\* random.shuffle: any arrangement of the list.

RemoveAt(s, i) == SubSeq(s, 1, i - 1) \o SubSeq(s, i + 1, Len(s))

RECURSIVE Shuffles(_)
Shuffles(s) ==
    IF s = <<>> THEN {<<>>}
    ELSE UNION {{<<v>> \o p :
                    p \in Shuffles(RemoveAt(s, CHOOSE i \in 1..Len(s) : s[i] = v))} :
                v \in Range(s)}

---------------------------------------------------------------------------
\* The statistics.

\* A defaultdict(int) after "d[k] += 1" for every k of keys.
CountKeys(keys) ==
    [k \in Range(keys) |-> Cardinality({i \in 1..Len(keys) : keys[i] = k})]

\* Mutant of HasProcedure: the test is "procedure_type" in meta.
HasProcedure_key(e) == e.metadata.procedure_type # Absent

\* meta.get("procedure_type") as a condition: the key present, its value not
\* empty.
HasProcedure(e) ==
    e.metadata.procedure_type # Absent /\ e.metadata.procedure_type # ""

\* Mutant of unique_images: the length of the list of paths, not of their set.
unique_images_len(fd) == Len(fd)

unique_images(fd) == Cardinality({fd[i].image_path : i \in 1..Len(fd)})

stats_error(fd) ==
    IF \E i \in 1..Len(fd) :
          \/ fd[i].metadata.category = Absent
          \/ fd[i].metadata.age_range = Absent
          \/ fd[i].metadata.sex = Absent
    THEN "KeyError" ELSE ""

GenerateStats(fd) ==
    LET withProcedure == SelectSeq(fd, HasProcedure)
    IN  [total_entries |-> Len(fd),
         unique_images |-> unique_images(fd),
         category_distribution |->
             CountKeys([i \in 1..Len(fd) |-> fd[i].metadata.category]),
         age_distribution |->
             CountKeys([i \in 1..Len(fd) |-> fd[i].metadata.age_range]),
         sex_distribution |->
             CountKeys([i \in 1..Len(fd) |-> fd[i].metadata.sex]),
         procedure_types |->
             CountKeys([i \in 1..Len(withProcedure) |->
                           withProcedure[i].metadata.procedure_type])]

---------------------------------------------------------------------------
\* prepare_dataset, statement by statement.

NotWritten == [written |-> FALSE, content |-> <<>>]

Written(c) == [written |-> TRUE, content |-> c]

\* An exception leaves prepare_dataset: nothing after the raising statement runs.
Raise(e) ==
    /\ pc' = "failed"
    /\ err' = e

\* data = load_jsonl(input_file)
Load ==
    /\ pc = "load"
    /\ LET r == load_jsonl(file)
       IN  IF r.err # ""
           THEN Raise(r.err) /\ UNCHANGED <<data, loaded>>
           ELSE /\ data' = r.data
                /\ loaded' = r.data
                /\ pc' = "balance"
                /\ err' = err
    /\ UNCHANGED <<file, augment, balance, max_per_category, formatted_data,
                   output_file, stats, stats_file, result, kept>>

\* if balance: data = balance_dataset(data, max_per_category)
Balance ==
    /\ pc = "balance"
    /\ IF balance
       THEN IF balance_error(data, max_per_category) # ""
            THEN Raise(balance_error(data, max_per_category)) /\ UNCHANGED <<data, kept>>
            ELSE \E idx \in balance_dataset(data, max_per_category) :
                    /\ kept' = idx
                    /\ data' = [i \in 1..Len(idx) |-> data[idx[i]]]
                    /\ pc' = "augment"
                    /\ err' = err
       ELSE /\ kept' = [i \in 1..Len(data) |-> i]
            /\ pc' = "augment"
            /\ UNCHANGED <<data, err>>
    /\ UNCHANGED <<file, augment, balance, max_per_category, formatted_data,
                   output_file, stats, stats_file, result, loaded>>

\* if augment: data = the concatenation of augment_prompts(entry) for entry in data
Augment ==
    /\ pc = "augment"
    /\ IF augment
       THEN IF \E i \in 1..Len(data) : augment_error(data[i]) # ""
            THEN Raise("KeyError") /\ UNCHANGED data
            ELSE /\ data' = AugmentAll(data)
                 /\ pc' = "format"
                 /\ err' = err
       ELSE /\ pc' = "format"
            /\ UNCHANGED <<data, err>>
    /\ UNCHANGED <<file, augment, balance, max_per_category, formatted_data,
                   output_file, stats, stats_file, result, loaded, kept>>

\* formatted_data = [format_for_training(entry) for entry in data]
Format ==
    /\ pc = "format"
    /\ formatted_data' = [i \in 1..Len(data) |-> format_for_training(data[i])]
    /\ pc' = "shuffle"
    /\ UNCHANGED <<file, augment, balance, max_per_category, data, output_file,
                   stats, stats_file, result, err, loaded, kept>>

\* random.shuffle(formatted_data)
Shuffle ==
    /\ pc = "shuffle"
    /\ \E p \in Shuffles(formatted_data) : formatted_data' = p
    /\ pc' = "save_formatted"
    /\ UNCHANGED <<file, augment, balance, max_per_category, data, output_file,
                   stats, stats_file, result, err, loaded, kept>>

\* with open(output_file, 'w') ...: one line per formatted entry
SaveFormatted ==
    /\ pc = "save_formatted"
    /\ output_file' = Written(formatted_data)
    /\ pc' = "stats"
    /\ UNCHANGED <<file, augment, balance, max_per_category, data, formatted_data,
                   stats, stats_file, result, err, loaded, kept>>

\* stats = {...} and the loop that fills its distributions
Stats ==
    /\ pc = "stats"
    /\ IF stats_error(formatted_data) # ""
       THEN Raise(stats_error(formatted_data)) /\ UNCHANGED stats
       ELSE /\ stats' = <<GenerateStats(formatted_data)>>
            /\ pc' = "save_stats"
            /\ err' = err
    /\ UNCHANGED <<file, augment, balance, max_per_category, data, formatted_data,
                   output_file, stats_file, result, loaded, kept>>

\* with open(stats_file, 'w') ...: json.dump(dict(stats), f, indent=2)
SaveStats ==
    /\ pc = "save_stats"
    /\ stats_file' = Written(stats)
    /\ pc' = "return"
    /\ UNCHANGED <<file, augment, balance, max_per_category, data, formatted_data,
                   output_file, stats, result, err, loaded, kept>>

\* return stats["total_entries"], stats["unique_images"]
Return ==
    /\ pc = "return"
    /\ result' = <<stats[1].total_entries, stats[1].unique_images>>
    /\ pc' = "done"
    /\ UNCHANGED <<file, augment, balance, max_per_category, data, formatted_data,
                   output_file, stats, stats_file, err, loaded, kept>>

---------------------------------------------------------------------------
\* Spec: prepare_dataset on every file of at most MaxRecords lines, each line
\* the JSON text of a record of Pool, empty, or not JSON, with every setting of
\* the options.

Lines == {<<k>> : k \in DOMAIN Pool} \cup {<<>>, <<"x">>}

FileOf(ls) == Flatten([i \in 1..Len(ls) |-> ls[i] \o <<"\n">>])

Caps == {None} \cup {Some(n) : n \in (-1)..MaxCap}

Start ==
    /\ pc = "load"
    /\ data = <<>>
    /\ formatted_data = <<>>
    /\ output_file = NotWritten
    /\ stats = <<>>
    /\ stats_file = NotWritten
    /\ result = <<>>
    /\ err = ""
    /\ loaded = <<>>
    /\ kept = <<>>

Init ==
    /\ file \in {FileOf(ls) : ls \in SeqUpTo(Lines, MaxRecords)}
    /\ augment \in BOOLEAN
    /\ balance \in BOOLEAN
    /\ max_per_category \in (IF balance THEN Caps ELSE {None})
    /\ Start

Next ==
    \/ Load
    \/ Balance
    \/ Augment
    \/ Format
    \/ Shuffle
    \/ SaveFormatted
    \/ Stats
    \/ SaveStats
    \/ Return

Spec == Init /\ [][Next]_vars

---------------------------------------------------------------------------
\* SpecLoad: load_jsonl on every text of at most MaxFileLen symbols.

LoadSymbols == {"\n", " ", "x", "polypA", "normal"}

InitLoad ==
    /\ file \in SeqUpTo(LoadSymbols, MaxFileLen)
    /\ augment = FALSE
    /\ balance = FALSE
    /\ max_per_category = None
    /\ Start

SpecLoad == InitLoad /\ [][Load]_vars

---------------------------------------------------------------------------
\* SpecBalance: the balancing step on every list of at most MaxBalanced
\* well-formed records of Pool, with every cap.  The step starts from the list
\* as loaded; the text it was loaded from is not part of the state here.

BalanceEntries == {Pool.polypA, Pool.polypB, Pool.normal, Pool.ulcer}

InitBalance ==
    /\ file = <<>>
    /\ augment = FALSE
    /\ balance = TRUE
    /\ max_per_category \in Caps
    /\ pc = "balance"
    /\ \E d \in SeqUpTo(BalanceEntries, MaxBalanced) : data = d /\ loaded = d
    /\ kept = <<>>
    /\ formatted_data = <<>>
    /\ output_file = NotWritten
    /\ stats = <<>>
    /\ stats_file = NotWritten
    /\ result = <<>>
    /\ err = ""

SpecBalance == InitBalance /\ [][Balance]_vars

---------------------------------------------------------------------------
\* SpecAugment: the augmentation step on one entry, for every prompt of at
\* most MaxPromptLen symbols, every category and both values of
\* has_annotations.  The step starts from the entry as loaded; the text it was
\* loaded from is not part of the state here.

PromptSymbols == {"b1", "b2", "x"}

AugmentEntries ==
    {Entry("img1", p, Meta(c, "40-50", "M", h, Absent)) :
        p \in SeqUpTo(PromptSymbols, MaxPromptLen),
        c \in {"polyp", "normal", Absent},
        h \in BOOLEAN}

InitAugment ==
    /\ file = <<>>
    /\ augment = TRUE
    /\ balance = FALSE
    /\ max_per_category = None
    /\ pc = "augment"
    /\ \E e \in AugmentEntries : data = <<e>> /\ loaded = <<e>>
    /\ kept = <<1>>
    /\ formatted_data = <<>>
    /\ output_file = NotWritten
    /\ stats = <<>>
    /\ stats_file = NotWritten
    /\ result = <<>>
    /\ err = ""

SpecAugment == InitAugment /\ [][Augment]_vars

---------------------------------------------------------------------------
\* Notions the properties are stated in.

Get(d, k) == IF k \in DOMAIN d THEN d[k] ELSE 0

RECURSIVE SumOver(_, _)
SumOver(d, S) ==
    IF S = {} THEN 0
    ELSE LET k == CHOOSE x \in S : TRUE IN d[k] + SumOver(d, S \ {k})

Count(s, P(_)) == Cardinality({i \in 1..Len(s) : P(s[i])})

Contains(s, sub) ==
    \E k \in 0..(Len(s) - Len(sub)) : SubSeq(s, k + 1, k + Len(sub)) = sub

\* The glossary's "eligible (for augmentation)".
Annotated(e) == e.metadata.category # "normal" /\ e.metadata.has_annotations = TRUE

PositiveCap == max_per_category # None /\ max_per_category[1] > 0

NonPositiveCap == max_per_category # None /\ max_per_category[1] <= 0

StatsGenerated == pc \in {"save_stats", "return", "done"}

\* A line without its terminator.
LineBody(l) == IF l # <<>> /\ l[Len(l)] = "\n" THEN SubSeq(l, 1, Len(l) - 1) ELSE l

NonEmptyLines(f) == SelectSeq(SplitLines(f), LAMBDA l : LineBody(l) # <<>>)

---------------------------------------------------------------------------
\* C1: a run of prepare_dataset that has ended, normally or with an exception,
\* has written both the formatted-records file and the statistics file, or
\* neither.
C1_BothOrNeither ==
    pc \in {"done", "failed"} => (output_file.written <=> stats_file.written)

\* C2: with balancing on and a non-positive max_per_category the run is
\* rejected before any sampling: it never gets past the balancing step, no
\* balanced sequence exists and no output is written.
C2_NonPositiveCapRejected ==
    (balance /\ NonPositiveCap) =>
        /\ pc \in {"load", "balance", "failed"}
        /\ kept = <<>>
        /\ ~output_file.written
        /\ ~stats_file.written

\* C3: with a positive cap, what balance_dataset returns holds, of each
\* category, exactly cap records when the category had more than cap and all
\* of its records otherwise; each returned record is a record of the input,
\* and no position of the input is returned twice.
C3_BalanceCaps ==
    (pc = "augment" /\ balance /\ PositiveCap) =>
        LET cap == max_per_category[1]
        IN  /\ \A j \in 1..Len(kept) : kept[j] \in 1..Len(loaded)
            /\ \A i, j \in 1..Len(kept) : i # j => kept[i] # kept[j]
            /\ Len(data) = Len(kept)
            /\ \A j \in 1..Len(kept) : data[j] = loaded[kept[j]]
            /\ \A c \in {loaded[i].metadata.category : i \in 1..Len(loaded)} :
                 LET InC(e) == e.metadata.category = c
                 IN  Count(data, InC) =
                        IF Count(loaded, InC) > cap THEN cap ELSE Count(loaded, InC)

\* C3's case: balancing with a positive cap has cut a category down.
C3_Witness ==
    /\ pc = "augment" /\ balance /\ PositiveCap
    /\ Len(data) < Len(loaded)
    /\ Len(data) >= 2

\* C4: augment_prompts returns 3 variants of an eligible record and 1 of any
\* other; the first is the record itself, and every further one equals the
\* record in every field but prompt.
C4_VariantCount ==
    pc = "format" =>
        LET e == loaded[1]
        IN  /\ Len(data) = IF Annotated(e) THEN 3 ELSE 1
            /\ data[1] = e
            /\ \A i \in 2..Len(data) : [data[i] EXCEPT !.prompt = e.prompt] = e

\* C4's case: an eligible record has been expanded, its variants' prompts
\* replaced.
C4_Witness ==
    /\ pc = "format"
    /\ Len(data) = 3
    /\ data[2].prompt # loaded[1].prompt
    /\ data[3].prompt # data[2].prompt

\* C5, as claimed: the i-th additional variant's prompt is the i-th alternative
\* when the prompt is exactly the baseline, and the original prompt in every
\* other case, also when the prompt holds the baseline inside longer text.
C5_MatchOrNoop ==
    (pc = "format" /\ Len(data) = 3) =>
        \A i \in 1..2 :
            data[i + 1].prompt =
                IF loaded[1].prompt = BASELINE THEN alternative_prompts[i]
                ELSE loaded[1].prompt

\* C5, amended: the substitution replaces the baseline wherever the prompt
\* holds it.  The i-th additional variant's prompt is the i-th alternative
\* when the prompt is exactly the baseline; it is the original prompt exactly
\* when the prompt does not hold the baseline; otherwise it holds the i-th
\* alternative and no baseline.
C5_ReplacesOccurrences ==
    (pc = "format" /\ Len(data) = 3) =>
        \A i \in 1..2 :
            LET p == loaded[1].prompt
                v == data[i + 1].prompt
                a == alternative_prompts[i]
            IN  /\ p = BASELINE => v = a
                /\ v = p <=> ~Contains(p, BASELINE)
                /\ Contains(p, BASELINE) => Contains(v, a)
                /\ ~Contains(v, BASELINE)

\* C5's case: the prompt holds the baseline inside longer text, and the
\* variant's prompt is neither the original nor the bare alternative.
C5_Witness ==
    /\ pc = "format" /\ Len(data) = 3
    /\ Contains(loaded[1].prompt, BASELINE)
    /\ loaded[1].prompt # BASELINE
    /\ data[2].prompt # loaded[1].prompt
    /\ data[2].prompt # alternative_prompts[1]

\* C6: when every non-empty line of the source is valid JSON, load_jsonl
\* returns without failure one record per non-empty line, in source order.
C6_OnePerNonEmptyLine ==
    LET ls == NonEmptyLines(file)
    IN  (/\ pc # "load"
         /\ \A i \in 1..Len(ls) : JsonValid(Strip(ls[i]))) =>
            /\ err = ""
            /\ Len(data) = Len(ls)
            /\ \A i \in 1..Len(ls) : data[i] = json_loads(Strip(ls[i]))

\* C7: with balance off and augment on, total_entries is 3*E + I and each
\* category's count is 3*E_c + I_c, for E eligible and I ineligible input
\* records; with both off, total_entries is the number of input records.
C7_AugmentedCounts ==
    (pc = "done" /\ ~balance) =>
        LET s == stats[1]
            Inelig(e) == ~Annotated(e)
        IN  IF augment
            THEN /\ s.total_entries = 3 * Count(loaded, Annotated) + Count(loaded, Inelig)
                 /\ DOMAIN s.category_distribution =
                        {loaded[i].metadata.category : i \in 1..Len(loaded)}
                 /\ \A c \in DOMAIN s.category_distribution :
                      LET EligC(e) == Annotated(e) /\ e.metadata.category = c
                          IneligC(e) == ~Annotated(e) /\ e.metadata.category = c
                      IN  s.category_distribution[c] =
                             3 * Count(loaded, EligC) + Count(loaded, IneligC)
            ELSE s.total_entries = Len(loaded)

\* C7's case: an augmented run over a category holding both an eligible and an
\* ineligible record.
C7_Witness ==
    /\ pc = "done" /\ ~balance /\ augment
    /\ \E i, j \in 1..Len(loaded) :
          /\ Annotated(loaded[i]) /\ ~Annotated(loaded[j])
          /\ loaded[i].metadata.category = loaded[j].metadata.category

\* C8: unique_images is the number of distinct image_path values among the
\* formatted records, at most total_entries and equal to it exactly when no
\* two formatted records share an image_path; the returned pair is
\* (total_entries, unique_images) of the report.
C8_UniqueImages ==
    StatsGenerated =>
        LET s == stats[1]
            w == output_file.content
        IN  /\ s.total_entries = Len(w)
            /\ s.unique_images <= s.total_entries
            /\ s.unique_images = Cardinality({w[i].image_path : i \in 1..Len(w)})
            /\ s.unique_images = s.total_entries <=>
                  \A i, j \in 1..Len(w) : i # j => w[i].image_path # w[j].image_path
            /\ pc = "done" => result = <<s.total_entries, s.unique_images>>
            /\ pc = "done" => stats_file.content = stats

\* C8's case: a finished run whose augmented variants share image paths.
C8_Witness ==
    /\ pc = "done" /\ augment
    /\ stats[1].unique_images < stats[1].total_entries
    /\ stats[1].unique_images >= 2

\* C9, as claimed: for every value p, procedure_types[p] is the number of
\* formatted records whose metadata has the procedure_type key with value p;
\* records without the key are in no bucket, and the counts sum to the number
\* of records that have the key.
C9_CountedWhenKeyPresent ==
    StatsGenerated =>
        LET pt == stats[1].procedure_types
            fd == formatted_data
            HasKey(e) == e.metadata.procedure_type # Absent
        IN  /\ Absent \notin DOMAIN pt
            /\ \A p \in {fd[i].metadata.procedure_type : i \in 1..Len(fd)} \ {Absent} :
                  LET IsP(e) == e.metadata.procedure_type = p
                  IN  Get(pt, p) = Count(fd, IsP)
            /\ SumOver(pt, DOMAIN pt) = Count(fd, HasKey)

\* C9, amended: a formatted record is counted under its procedure_type value
\* exactly when its metadata has the key with a non-empty value; records
\* without the key or with an empty value are in no bucket, and the counts sum
\* to the number of records with a non-empty procedure_type.
C9_CountedWhenNonEmpty ==
    StatsGenerated =>
        LET pt == stats[1].procedure_types
            fd == formatted_data
            NonEmpty(e) == e.metadata.procedure_type \notin {Absent, ""}
        IN  /\ DOMAIN pt =
                  {fd[i].metadata.procedure_type : i \in 1..Len(fd)} \ {Absent, ""}
            /\ \A p \in DOMAIN pt :
                  LET IsP(e) == e.metadata.procedure_type = p
                  IN  pt[p] = Count(fd, IsP)
            /\ SumOver(pt, DOMAIN pt) = Count(fd, NonEmpty)

\* C9's case: statistics over a record whose procedure_type is empty and one
\* whose procedure_type is not.
C9_Witness ==
    /\ pc = "done"
    /\ \E j, k \in 1..Len(formatted_data) :
          /\ formatted_data[j].metadata.procedure_type = ""
          /\ formatted_data[k].metadata.procedure_type \notin {Absent, ""}

\* C10: with balance and augment on and a positive cap, every category's final
\* count is at most 3*cap, and at most cap for "normal"; a category whose
\* input records are all eligible and number at least cap ends at exactly
\* 3*cap.
C10_CapBeforeAugment ==
    (pc = "done" /\ balance /\ augment /\ PositiveCap) =>
        LET cap == max_per_category[1]
            cd == stats[1].category_distribution
        IN  \A c \in DOMAIN cd :
               LET InC(e) == e.metadata.category = c
                   EligC(e) == Annotated(e) /\ e.metadata.category = c
               IN  /\ cd[c] <= 3 * cap
                   /\ c = "normal" => cd[c] <= cap
                   /\ (Count(loaded, EligC) = Count(loaded, InC)
                          /\ Count(loaded, InC) >= cap) => cd[c] = 3 * cap

\* C10's case: a category cut to the cap and then augmented ends above the cap.
C10_Witness ==
    /\ pc = "done" /\ balance /\ augment /\ PositiveCap
    /\ Len(kept) < Len(loaded)
    /\ \E c \in DOMAIN stats[1].category_distribution :
          /\ stats[1].category_distribution[c] = 3 * max_per_category[1]
          /\ stats[1].category_distribution[c] > max_per_category[1]

====
